---------------------------- MODULE Spec2Model ----------------------------
(***************************************************************************)
(* A model of noemoji.py: the emoji matcher (regex range table or emoji    *)
(* library), the extension filter, the preview scan, the confirmation      *)
(* prompt and the execute pass (whole-file rewrite of small files,         *)
(* temp-file + shutil.move rewrite of large files).                        *)
(*                                                                         *)
(* Text is a sequence of Unicode scalar values (integers).  A file's bytes *)
(* are a sequence of units: a unit >= 0 is a scalar value standing for its *)
(* UTF-8 encoding, the unit -1 is a byte that belongs to no valid UTF-8    *)
(* sequence (such as 0xFF).  Names and command-line tokens are sequences   *)
(* of one-character strings.                                               *)
(***************************************************************************)
EXTENDS Integers, Sequences, FiniteSets, TLC

(***************************************************************************)
(* Bounds of the model.                                                    *)
(***************************************************************************)
\* number of regular files under the target directory
NumFiles == 2
\* longest modelled content of the first file, in units (main run)
MaxLen == 2
\* longest text given to the matcher alone
MaxTextLen == 4
\* longest modelled content of the large file in the streaming run
MaxStreamLen == 3

Paths == 1..NumFiles

(***************************************************************************)
(* Generic helpers on sequences.                                           *)
(***************************************************************************)
Range(s) == {s[i] : i \in 1..Len(s)}

SeqsUpTo(S, n) == UNION {[1..k -> S] : k \in 0..n}

RECURSIVE Concat(_)
Concat(ss) == IF ss = <<>> THEN <<>> ELSE Head(ss) \o Concat(Tail(ss))

(***************************************************************************)
(* The matcher.                                                            *)
(***************************************************************************)
\* EMOJI_PATTERN: the character class, as inclusive ranges of scalar values
EMOJI_PATTERN ==
  { <<128512, 128591>>, <<127744, 128511>>, <<128640, 128767>>, <<129280, 129535>>,
    <<129536, 129647>>, <<129648, 129791>>, <<127456, 127487>>, <<9986, 9988>>,
    <<9992, 9997>>, <<9999, 9999>>, <<10002, 10002>>, <<10004, 10004>>,
    <<10006, 10006>>, <<10013, 10013>>, <<10017, 10017>>, <<10024, 10024>>,
    <<10035, 10036>>, <<10052, 10052>>, <<10055, 10055>>, <<10060, 10060>>,
    <<10062, 10062>>, <<10067, 10069>>, <<10071, 10071>>, <<10083, 10084>>,
    <<10133, 10135>>, <<10145, 10145>>, <<10160, 10160>>, <<10175, 10175>>,
    <<11013, 11015>>, <<11035, 11036>>, <<11088, 11088>>, <<11093, 11093>>,
    <<12336, 12336>>, <<12349, 12349>>, <<126980, 126980>>, <<127183, 127183>>,
    <<127344, 127345>>, <<127358, 127359>>, <<127374, 127374>>, <<127377, 127386>>,
    <<127489, 127490>>, <<127514, 127514>>, <<127535, 127535>>, <<127538, 127546>>,
    <<127568, 127569>>, <<9193, 9203>>, <<9208, 9210>>, <<9654, 9654>>,
    <<9664, 9664>>, <<9728, 9732>>, <<9745, 9745>>, <<9748, 9749>>,
    <<9752, 9752>>, <<9757, 9757>>, <<9760, 9760>>, <<9762, 9763>>,
    <<9766, 9766>>, <<9770, 9770>>, <<9774, 9775>>, <<9784, 9786>>,
    <<9792, 9792>>, <<9794, 9794>>, <<9800, 9811>>, <<9832, 9832>>,
    <<9851, 9851>>, <<9854, 9855>>, <<9874, 9879>>, <<9881, 9881>>,
    <<9883, 9884>>, <<9888, 9889>>, <<9895, 9895>>, <<9898, 9899>>,
    <<9904, 9905>>, <<9917, 9918>>, <<9924, 9925>>, <<9928, 9928>>,
    <<9934, 9934>>, <<9935, 9935>>, <<9937, 9937>>, <<9939, 9940>>,
    <<9961, 9962>>, <<9968, 9973>>, <<9975, 9978>>, <<9981, 9981>> }

\* one scalar value matches the character class
MatchesPattern(c) == \E r \in EMOJI_PATTERN : r[1] <= c /\ c <= r[2]

\* find_emojis_regex: EMOJI_PATTERN.findall(text), one match per matching scalar
RECURSIVE find_emojis_regex(_)
find_emojis_regex(text) ==
  IF text = <<>> THEN <<>>
  ELSE (IF MatchesPattern(Head(text)) THEN <<Head(text)>> ELSE <<>>)
       \o find_emojis_regex(Tail(text))

\* remove_emojis_regex: EMOJI_PATTERN.sub("", text)
RECURSIVE remove_emojis_regex(_)
remove_emojis_regex(text) ==
  IF text = <<>> THEN <<>>
  ELSE (IF MatchesPattern(Head(text)) THEN <<>> ELSE <<Head(text)>>)
       \o remove_emojis_regex(Tail(text))

(***************************************************************************)
(* The emoji library (third party, imported at line 31).  EMOJI_DATA maps  *)
(* emoji, single scalars and multi-scalar sequences alike, to their data;  *)
(* the model keeps the entries that the modelled texts can spell: the      *)
(* single emoji U+1F600, the flag sequence U+1F1FA U+1F1F8 and the keycap  *)
(* sequence "1" U+20E3.  A regional indicator alone, the digit alone and   *)
(* U+20E3 alone are no entries of EMOJI_DATA.  replace_emoji tokenizes the *)
(* text left to right, taking at each position the longest entry that      *)
(* starts there, and drops the matched tokens.                             *)
(***************************************************************************)
EMOJI_DATA == { <<128512>>, <<127482, 127480>>, <<49, 8419>> }

IsPrefix(p, s) == Len(p) <= Len(s) /\ SubSeq(s, 1, Len(p)) = p

\* the length of the longest EMOJI_DATA entry starting the text, 0 if none
LongestEntry(text) ==
  LET ls == {Len(e) : e \in {d \in EMOJI_DATA : IsPrefix(d, text)}}
  IN  IF ls = {} THEN 0 ELSE CHOOSE l \in ls : \A m \in ls : m <= l

\* find_emojis_lib: [char for char in text if char in emoji.EMOJI_DATA]
RECURSIVE find_emojis_lib(_)
find_emojis_lib(text) ==
  IF text = <<>> THEN <<>>
  ELSE (IF <<Head(text)>> \in EMOJI_DATA THEN <<Head(text)>> ELSE <<>>)
       \o find_emojis_lib(Tail(text))

\* remove_emojis_lib: emoji.replace_emoji(text, replace="")
RECURSIVE remove_emojis_lib(_)
remove_emojis_lib(text) ==
  IF text = <<>> THEN <<>>
  ELSE LET l == LongestEntry(text)
       IN  IF l > 0 THEN remove_emojis_lib(SubSeq(text, l + 1, Len(text)))
           ELSE <<Head(text)>> \o remove_emojis_lib(Tail(text))

\* find_emojis / remove_emojis: the implementation selected at import time
find_emojis(lib, text) ==
  IF lib THEN find_emojis_lib(text) ELSE find_emojis_regex(text)

remove_emojis(lib, text) ==
  IF lib THEN remove_emojis_lib(text) ELSE remove_emojis_regex(text)

(***************************************************************************)
(* Text files: decoding, newline translation, encoding, size.              *)
(***************************************************************************)
IsBadByte(u) == u < 0

\* whether bytes.decode("utf-8") raises UnicodeDecodeError
DecodeFails(bytes) == \E i \in 1..Len(bytes) : IsBadByte(bytes[i])

\* bytes.decode("utf-8", errors="ignore"): undecodable bytes are dropped
DecodeIgnore(bytes) == SelectSeq(bytes, LAMBDA u : ~IsBadByte(u))

\* reading in text mode with newline=None: "\r\n" and "\r" become "\n"
RECURSIVE UniversalNewlines(_)
UniversalNewlines(text) ==
  IF text = <<>> THEN <<>>
  ELSE IF Head(text) = 13
       THEN IF Len(text) >= 2 /\ text[2] = 10
            THEN <<10>> \o UniversalNewlines(SubSeq(text, 3, Len(text)))
            ELSE <<10>> \o UniversalNewlines(Tail(text))
       ELSE <<Head(text)>> \o UniversalNewlines(Tail(text))

\* writing in text mode with newline=None: "\n" becomes os.linesep
RECURSIVE WriteNewlines(_, _)
WriteNewlines(text, sep) ==
  IF text = <<>> THEN <<>>
  ELSE (IF Head(text) = 10 THEN sep ELSE <<Head(text)>>)
       \o WriteNewlines(Tail(text), sep)

\* the text a strict text-mode read returns (Path.read_text, encoding="utf-8")
ReadText(bytes) == UniversalNewlines(bytes)

\* the text open("r", encoding="utf-8", errors="ignore") yields
ReadTextIgnore(bytes) == UniversalNewlines(DecodeIgnore(bytes))

\* iterating a text file: the lines, each with its "\n" except perhaps the last
RECURSIVE SplitLinesFrom(_, _)
SplitLinesFrom(text, cur) ==
  IF text = <<>> THEN (IF cur = <<>> THEN <<>> ELSE <<cur>>)
  ELSE IF Head(text) = 10
       THEN <<Append(cur, 10)>> \o SplitLinesFrom(Tail(text), <<>>)
       ELSE SplitLinesFrom(Tail(text), Append(cur, Head(text)))

SplitLines(text) == SplitLinesFrom(text, <<>>)

\* the number of bytes of one unit's UTF-8 encoding
Utf8Len(u) ==
  IF u < 128 THEN 1 ELSE IF u < 2048 THEN 2 ELSE IF u < 65536 THEN 3 ELSE 4

RECURSIVE ByteLen(_)
ByteLen(bytes) ==
  IF bytes = <<>> THEN 0 ELSE Utf8Len(Head(bytes)) + ByteLen(Tail(bytes))

\* LARGE_FILE_THRESHOLD
LARGE_FILE_THRESHOLD == 10 * 1024 * 1024

(***************************************************************************)
(* Names, suffixes and the command-line extension tokens.                  *)
(***************************************************************************)
\* str.lower on the letters the modelled names and tokens use
LowerChar(c) ==
  CASE c = "M" -> "m" [] c = "D" -> "d" [] c = "T" -> "t" [] c = "X" -> "x"
    [] c = "Y" -> "y" [] c = "E" -> "e" [] c = "S" -> "s" [] c = "N" -> "n"
    [] c = "O" -> "o" [] OTHER -> c

Lower(str) == [i \in 1..Len(str) |-> LowerChar(str[i])]

\* str.rfind("."): the 0-based index of the last dot, -1 if none
RFindDot(name) ==
  LET ds == {i \in 1..Len(name) : name[i] = "."}
  IN  IF ds = {} THEN -1 ELSE (CHOOSE i \in ds : \A j \in ds : j <= i) - 1

\* PurePath.suffix: from the last dot on, unless the dot starts or ends the name
Suffix(name) ==
  LET i == RFindDot(name)
  IN  IF 0 < i /\ i < Len(name) - 1 THEN SubSeq(name, i + 1, Len(name)) ELSE <<>>

\* main: ext if ext.startswith(".") else f".{ext}"
NormalizeToken(tok) ==
  IF Len(tok) >= 1 /\ tok[1] = "." THEN tok ELSE <<".">> \o tok

\* main: the list passed to scan_directory; an absent option is the empty list
NormalizeTokens(toks) == [i \in 1..Len(toks) |-> NormalizeToken(toks[i])]

\* scan_directory: whether the walk keeps the file (extensions, excludes as passed)
PassesFilter(name, extensions, excludes) ==
  LET suffix == Lower(Suffix(name))
  IN  /\ ~(extensions # <<>> /\ suffix \notin Range(extensions))
      /\ ~(excludes # <<>> /\ suffix \in Range(excludes))

\* main: input(...).strip(), on the whitespace the modelled answers use
RECURSIVE LStrip(_)
LStrip(str) ==
  IF str # <<>> /\ Head(str) = " " THEN LStrip(Tail(str)) ELSE str

RECURSIVE RStrip(_)
RStrip(str) ==
  IF str # <<>> /\ str[Len(str)] = " "
  THEN RStrip(SubSeq(str, 1, Len(str) - 1)) ELSE str

strip(str) == RStrip(LStrip(str))

\* a confirmation that accepts every answer starting with "y"
ConfirmedPrefix(answer) ==
  LET confirm == Lower(strip(answer))
  IN  confirm # <<>> /\ confirm[1] = "y"

\* main: confirm = input(...).strip().lower(); confirm in ("yes", "y")
Confirmed(answer) ==
  LET confirm == Lower(strip(answer))
  IN  confirm \in {<<"y", "e", "s">>, <<"y">>}

(***************************************************************************)
(* The program's state.                                                    *)
(***************************************************************************)
VARIABLES
  HAS_EMOJI_LIB,       \* whether "import emoji" succeeded
  os_linesep,          \* os.linesep of the platform
  args,                \* the parsed command line
  mode,                \* per file: what the file system lets the process do
  disk0,               \* per file: the content when the run starts
  disk,                \* per file: the content at the file's path now
  pc,                  \* where main is
  files_to_process,    \* scan_directory: the files the walk kept
  skipped_extensions,  \* scan_directory: ScanResult.skipped_extensions
  results,             \* scan_directory: ScanResult.files
  returned,            \* per file: what process_file returned for it
  k,                   \* scan_directory: index of the next file to process
  confirm,             \* what the prompt got
  i,                   \* main: index of the next result to clean
  xpc,                 \* process_file_streaming: where it is
  tmp,                 \* the temporary file: <<>> or <<its content>>
  failed,              \* the paths reported on stderr as failed
  exit_code,           \* the process's exit status, -1 while it runs
  outputs              \* matcher alone: x, remove_emojis(x), remove_emojis of that

static == <<HAS_EMOJI_LIB, os_linesep, args, mode, disk0>>
scanv  == <<files_to_process, skipped_extensions, results, returned, k>>
execv  == <<i, xpc, tmp, failed>>
vars   == <<static, disk, pc, scanv, confirm, execv, exit_code, outputs>>

(***************************************************************************)
(* The directory and the inputs of a run.                                  *)
(***************************************************************************)
\* the names of the files under the target directory: a.md, b.TXT, c, c, ...
FileName(p) ==
  CASE p = 1 -> <<"a", ".", "m", "d">>
    [] p = 2 -> <<"b", ".", "T", "X", "T">>
    [] OTHER -> <<"c">>

\* the units of the modelled contents: "a", U+1F600, an undecodable byte
Units == {97, 128512, -1}

\* contents of at most MaxLen units, not empty
Contents == SeqsUpTo(Units, MaxLen) \ {<<>>}

\* the bytes of a file: bulk leading bytes of emoji-free, newline-terminated
\* ASCII lines that are not modelled one by one, then the modelled data
FileContents == [bulk : {0, LARGE_FILE_THRESHOLD}, data : Contents]

\* the files after the first hold one unit, "a" or U+1F600, and are readable
OtherFileContents ==
  [bulk : {0, LARGE_FILE_THRESHOLD}, data : {<<97>>, <<128512>>}]

\* "ok"; "noread": stat works, open for reading raises PermissionError;
\* "nostat": stat raises OSError, and so does open
Modes == {"ok", "noread", "nostat"}

\* the --ext and --exclude token lists; <<>> is an option that was not given
ExtChoices == { <<>>, << <<"m", "d">> >>, << <<".", "M", "D">> >> }

ExcludeChoices == { <<>>, << <<".", "t", "x", "t">> >>, << <<"T", "X", "T">> >> }

\* what the operator may type at the prompt
AnswerChoices ==
  { <<"y", "e", "s">>, <<"y">>, <<"Y">>, <<" ", "Y", "e", "S", " ">>,
    <<"n", "o">>, <<>>, <<"y", "e", "s", "s">>, <<"y", " ", "e", "s">> }

PromptEvents ==
  [kind : {"line"}, text : AnswerChoices]
    \cup [kind : {"KeyboardInterrupt", "EOFError"}, text : {<<>>}]

NoEvent == [kind |-> "none", text |-> <<>>]

(***************************************************************************)
(* Reading a file.                                                         *)
(***************************************************************************)
\* is_large_file: st_size > LARGE_FILE_THRESHOLD, False when stat raises OSError
is_large_file(p) ==
  IF mode[p] = "nostat" THEN FALSE
  ELSE disk[p].bulk + ByteLen(disk[p].data) > LARGE_FILE_THRESHOLD

\* scan_file_streaming: the matches of every line; an OSError is swallowed and
\* the matches found so far (none, when open fails) are returned
scan_file_streaming(p) ==
  IF mode[p] # "ok" THEN <<>>
  ELSE LET lines == SplitLines(ReadTextIgnore(disk[p].data))
       IN  Concat([j \in 1..Len(lines) |-> find_emojis(HAS_EMOJI_LIB, lines[j])])

FileResult(p, emojis) ==
  [path |-> p, emoji_count |-> Len(emojis), emojis_found |-> emojis]

\* process_file: (FileResult or None, whether skipped as unreadable)
process_file(p) ==
  IF is_large_file(p)
  THEN LET emojis == scan_file_streaming(p)
       IN  [result |-> IF emojis = <<>> THEN <<>> ELSE <<FileResult(p, emojis)>>,
            was_skipped |-> FALSE]
  ELSE IF mode[p] # "ok" \/ DecodeFails(disk[p].data)
       THEN [result |-> <<>>, was_skipped |-> TRUE]
       ELSE LET emojis == find_emojis(HAS_EMOJI_LIB, ReadText(disk[p].data))
            IN  [result |-> IF emojis = <<>> THEN <<>> ELSE <<FileResult(p, emojis)>>,
                 was_skipped |-> FALSE]

(***************************************************************************)
(* main, up to the execute pass.                                           *)
(***************************************************************************)
\* main: the lists handed to scan_directory
extensions == NormalizeTokens(args.ext)

excludes == NormalizeTokens(args.exclude)

\* os.walk: every file under the target directory, in the order of the walk
WalkOrder == [p \in 1..NumFiles |-> p]

Kept(p) == PassesFilter(FileName(p), extensions, excludes)

\* scan_directory, first step: collect the files, note the filtered suffixes
Walk ==
  /\ pc = "walk"
  /\ files_to_process' = SelectSeq(WalkOrder, Kept)
  /\ skipped_extensions' =
       {Lower(Suffix(FileName(p))) :
          p \in {q \in Paths : ~Kept(q) /\ Suffix(FileName(q)) # <<>>}}
  /\ k' = 1
  /\ pc' = IF files_to_process' = <<>> THEN "report" ELSE "scan"
  /\ UNCHANGED <<static, disk, results, returned, confirm, execv, exit_code, outputs>>

\* scan_directory, second step: process_file on the next collected file
ScanFile ==
  /\ pc = "scan"
  /\ LET p == files_to_process[k]
         r == process_file(p)
         suffix == Lower(Suffix(FileName(p)))
     IN  /\ results' = results \o r.result
         /\ skipped_extensions' =
              IF r.result = <<>> /\ r.was_skipped /\ suffix # <<>>
              THEN skipped_extensions \cup {suffix} ELSE skipped_extensions
         /\ returned' = [returned EXCEPT ![p] =
              IF r.result # <<>> THEN "result"
              ELSE IF r.was_skipped THEN "skipped" ELSE "empty"]
  /\ k' = k + 1
  /\ pc' = IF k = Len(files_to_process) THEN "report" ELSE "scan"
  /\ UNCHANGED <<static, disk, files_to_process, confirm, execv, exit_code, outputs>>

\* a main that goes on to the execute pass in preview mode
ReturnsAfterPreviewIgnoringDryRun(dry_run, files) == files = <<>>

\* main: if args.dry_run or not scan_result.files: return 0
ReturnsAfterPreview(dry_run, files) == dry_run \/ files = <<>>

\* main: print_report, then return, prompt or go on to the execute pass
Report ==
  /\ pc = "report"
  /\ IF ReturnsAfterPreview(args.dry_run, results)
     THEN pc' = "done" /\ exit_code' = 0
     ELSE /\ pc' = IF args.yes THEN "execute" ELSE "prompt"
          /\ UNCHANGED exit_code
  /\ UNCHANGED <<static, disk, scanv, confirm, execv, outputs>>

\* main: the confirmation prompt
Prompt ==
  /\ pc = "prompt"
  /\ \E ev \in PromptEvents :
       /\ confirm' = ev
       /\ IF ev.kind = "line" /\ Confirmed(ev.text)
          THEN pc' = "execute" /\ UNCHANGED exit_code
          ELSE pc' = "done" /\ exit_code' = 0
  /\ UNCHANGED <<static, disk, scanv, execv, outputs>>

(***************************************************************************)
(* main, the execute pass.                                                 *)
(***************************************************************************)
\* an execute pass that walks the directory again instead of using the preview
ExecutePathsOfWalk == WalkOrder

\* main: for result in scan_result.files: file_path = Path(result.path)
ExecutePaths == [j \in 1..Len(results) |-> results[j].path]

\* the file the execute pass is at
cur == ExecutePaths[i]

\* the loop goes to the next result; after the last, main prints and returns 0
AdvanceExec ==
  /\ i' = i + 1
  /\ xpc' = "idle"
  /\ IF i = Len(ExecutePaths)
     THEN pc' = "done" /\ exit_code' = 0
     ELSE pc' = "execute" /\ UNCHANGED exit_code

\* what a file holds when a write that replaces it by target stops part-way:
\* nothing (truncated by the open), or a proper prefix of target
PartialWrites(target) ==
  {[bulk |-> 0, data |-> <<>>]}
    \cup {[bulk |-> target.bulk, data |-> SubSeq(target.data, 1, n)] :
            n \in 0..(Len(target.data) - 1)}

\* the text written back for a small file, as bytes
CleanedSmall(p) ==
  [bulk |-> disk[p].bulk,
   data |-> WriteNewlines(remove_emojis(HAS_EMOJI_LIB, ReadText(disk[p].data)),
                          os_linesep)]

\* main, small file: read_text, remove_emojis, write_text, except (...) as e
ExecSmall ==
  /\ pc = "execute" /\ xpc = "idle" /\ i <= Len(ExecutePaths)
  /\ ~is_large_file(cur)
  /\ \/ \* read_text raises: caught, reported
        /\ mode[cur] # "ok" \/ DecodeFails(disk[cur].data)
        /\ failed' = failed \cup {cur}
        /\ UNCHANGED disk
     \/ \* write_text cannot open the file for writing: caught, reported
        /\ mode[cur] = "ok" /\ ~DecodeFails(disk[cur].data)
        /\ failed' = failed \cup {cur}
        /\ UNCHANGED disk
     \/ \* write_text opened (and truncated) the file, then the write fails
        /\ mode[cur] = "ok" /\ ~DecodeFails(disk[cur].data)
        /\ \E part \in PartialWrites(CleanedSmall(cur)) :
             disk' = [disk EXCEPT ![cur] = part]
        /\ failed' = failed \cup {cur}
     \/ \* write_text succeeds
        /\ mode[cur] = "ok" /\ ~DecodeFails(disk[cur].data)
        /\ disk' = [disk EXCEPT ![cur] = CleanedSmall(cur)]
        /\ UNCHANGED failed
  /\ AdvanceExec
  /\ UNCHANGED <<static, scanv, confirm, tmp, outputs>>

\* the bytes process_file_streaming makes of a file's content c
CleanedStreamOf(c) ==
  LET lines == SplitLines(ReadTextIgnore(c.data))
  IN  [bulk |-> c.bulk,
       data |-> Concat([j \in 1..Len(lines) |->
                  WriteNewlines(remove_emojis(HAS_EMOJI_LIB, lines[j]), os_linesep)])]

\* the bytes process_file_streaming writes to the temporary file
CleanedStream(p) == CleanedStreamOf(disk[p])

\* process_file_streaming: NamedTemporaryFile(...) in the default temporary
\* directory.  When it raises OSError, the handler reads tmp_path, which is not
\* bound yet: UnboundLocalError, which neither the handler nor main catches.
StreamCreateTmp ==
  /\ pc = "execute" /\ xpc = "idle" /\ i <= Len(ExecutePaths)
  /\ is_large_file(cur)
  /\ \/ /\ tmp' = << [bulk |-> 0, data |-> <<>>] >>
        /\ xpc' = "tmp"
        /\ UNCHANGED <<pc, exit_code>>
     \/ /\ pc' = "crashed"
        /\ exit_code' = 1
        /\ UNCHANGED <<tmp, xpc>>
  /\ UNCHANGED <<static, disk, scanv, confirm, i, failed, outputs>>

\* process_file_streaming: the cleaned lines go to the temporary file; an
\* OSError (open of the original, write, flush) deletes it and returns False
StreamWriteTmp ==
  /\ pc = "execute" /\ xpc = "tmp"
  /\ \/ /\ mode[cur] = "ok"
        /\ tmp' = << CleanedStream(cur) >>
        /\ xpc' = "move"
        /\ UNCHANGED <<pc, i, failed, exit_code>>
     \/ /\ tmp' = <<>>
        /\ failed' = failed \cup {cur}
        /\ AdvanceExec
  /\ UNCHANGED <<static, disk, scanv, confirm, outputs>>

\* shutil.move: os.rename replaces the original in one step when the temporary
\* directory is on the original's file system; when rename raises OSError, move
\* falls back to copy2 onto the original (opened "wb": truncated) and unlink
StreamMove ==
  /\ pc = "execute" /\ xpc = "move"
  /\ \/ \* os.rename succeeds
        /\ disk' = [disk EXCEPT ![cur] = tmp[1]]
        /\ tmp' = <<>>
        /\ UNCHANGED failed
        /\ AdvanceExec
     \/ \* os.rename fails, copy2 opens the original for writing
        /\ disk' = [disk EXCEPT ![cur] = [bulk |-> 0, data |-> <<>>]]
        /\ xpc' = "copy"
        /\ UNCHANGED <<pc, i, tmp, failed, exit_code>>
     \/ \* os.rename fails, copy2 cannot open the original: OSError, cleanup
        /\ tmp' = <<>>
        /\ failed' = failed \cup {cur}
        /\ UNCHANGED disk
        /\ AdvanceExec
  /\ UNCHANGED <<static, scanv, confirm, outputs>>

\* shutil.move, the copy: all of the temporary file reaches the original and the
\* temporary file is unlinked, or the copy stops part-way with OSError
StreamCopy ==
  /\ pc = "execute" /\ xpc = "copy"
  /\ \/ /\ disk' = [disk EXCEPT ![cur] = tmp[1]]
        /\ UNCHANGED failed
     \/ /\ \E part \in PartialWrites(tmp[1]) :
             disk' = [disk EXCEPT ![cur] = part]
        /\ failed' = failed \cup {cur}
  /\ tmp' = <<>>
  /\ AdvanceExec
  /\ UNCHANGED <<static, scanv, confirm, outputs>>

(***************************************************************************)
(* The run of main on a directory.                                         *)
(***************************************************************************)
InitRun ==
  /\ disk = disk0
  /\ pc = "walk"
  /\ files_to_process = <<>>
  /\ skipped_extensions = {}
  /\ results = <<>>
  /\ returned = [p \in Paths |-> "none"]
  /\ k = 1
  /\ confirm = NoEvent
  /\ i = 1
  /\ xpc = "idle"
  /\ tmp = <<>>
  /\ failed = {}
  /\ exit_code = -1
  /\ outputs = <<>>

Init ==
  /\ HAS_EMOJI_LIB \in BOOLEAN
  /\ os_linesep = <<10>>
  /\ args \in [dry_run : BOOLEAN, yes : BOOLEAN,
               ext : ExtChoices, exclude : ExcludeChoices]
  /\ \E m \in Modes : mode = [p \in Paths |-> IF p = 1 THEN m ELSE "ok"]
  /\ \E c \in FileContents, o \in [Paths \ {1} -> OtherFileContents] :
       disk0 = [p \in Paths |-> IF p = 1 THEN c ELSE o[p]]
  /\ InitRun

Next ==
  \/ Walk
  \/ ScanFile
  \/ Report
  \/ Prompt
  \/ ExecSmall
  \/ StreamCreateTmp
  \/ StreamWriteTmp
  \/ StreamMove
  \/ StreamCopy

Spec == Init /\ [][Next]_vars

(***************************************************************************)
(* The run on a directory whose first file is large, with contents that    *)
(* hold line terminators: no filter, --yes.                                *)
(***************************************************************************)
\* "a", U+1F600, CR, LF, an undecodable byte
StreamUnits == {97, 128512, 13, 10, -1}

StreamContents == SeqsUpTo(StreamUnits, MaxStreamLen) \ {<<>>}

InitStream ==
  /\ HAS_EMOJI_LIB \in BOOLEAN
  /\ os_linesep \in {<<10>>, <<13, 10>>}
  /\ args = [dry_run |-> FALSE, yes |-> TRUE, ext |-> <<>>, exclude |-> <<>>]
  /\ mode = [p \in Paths |-> "ok"]
  /\ \E c \in StreamContents :
       disk0 = [p \in Paths |->
                  IF p = 1 THEN [bulk |-> LARGE_FILE_THRESHOLD, data |-> c]
                  ELSE [bulk |-> 0, data |-> <<97>>]]
  /\ InitRun

NextStream ==
  \/ Walk
  \/ ScanFile
  \/ Report
  \/ StreamCreateTmp
  \/ StreamWriteTmp
  \/ StreamMove
  \/ StreamCopy

SpecStream == InitStream /\ [][NextStream]_vars

(***************************************************************************)
(* The matcher alone: remove_emojis applied to a text, then to its result. *)
(***************************************************************************)
\* "a", U+1F600, the regional indicators U and S, "1", U+20E3
TextUnits == {97, 128512, 127482, 127480, 49, 8419}

InitMatcher ==
  /\ HAS_EMOJI_LIB \in BOOLEAN
  /\ os_linesep = <<10>>
  /\ args = [dry_run |-> TRUE, yes |-> FALSE, ext |-> <<>>, exclude |-> <<>>]
  /\ mode = [p \in Paths |-> "ok"]
  /\ disk0 = [p \in Paths |-> [bulk |-> 0, data |-> <<97>>]]
  /\ disk = disk0
  /\ pc = "matcher"
  /\ files_to_process = <<>>
  /\ skipped_extensions = {}
  /\ results = <<>>
  /\ returned = [p \in Paths |-> "none"]
  /\ k = 1
  /\ confirm = NoEvent
  /\ i = 1
  /\ xpc = "idle"
  /\ tmp = <<>>
  /\ failed = {}
  /\ exit_code = -1
  /\ \E x \in SeqsUpTo(TextUnits, MaxTextLen) : outputs = <<x>>

\* one more call of remove_emojis, on the last result
RemoveEmojis ==
  /\ pc = "matcher"
  /\ Len(outputs) < 3
  /\ outputs' = Append(outputs, remove_emojis(HAS_EMOJI_LIB, outputs[Len(outputs)]))
  /\ UNCHANGED <<static, disk, pc, scanv, confirm, execv, exit_code>>

NextMatcher == RemoveEmojis

SpecMatcher == InitMatcher /\ [][NextMatcher]_vars

(***************************************************************************)
(* Properties.                                                             *)
(***************************************************************************)
\* the paths of ScanResult.files
ResultPaths == {results[j].path : j \in 1..Len(results)}

\* the execute pass has started
Executing == pc = "execute" \/ i > 1 \/ xpc # "idle" \/ pc = "crashed"

\* C1: in a run started with --dry-run no file is ever written, truncated or
\* replaced, no temporary file is ever created, and main never gets past the
\* preview report: it neither prompts nor enters the execute pass.
C1_DryRunNeverMutates ==
  args.dry_run =>
    /\ disk = disk0
    /\ tmp = <<>>
    /\ failed = {}
    /\ ~Executing
    /\ pc \in {"walk", "scan", "report", "done"}
    /\ (pc = "done" => exit_code = 0)

\* a dry run has ended after reporting a file with two matches
C1_Witness ==
  /\ args.dry_run
  /\ pc = "done"
  /\ \E j \in 1..Len(results) : results[j].emoji_count = 2

\* C2: in the execute pass, a file whose write or replace step failed holds
\* exactly the bytes it held before the attempt.
C2_FailedWriteKeepsOriginal ==
  \A p \in failed : disk[p] = disk0[p]

\* C2, for the streaming path alone
C2_FailedStreamKeepsOriginal ==
  \A p \in failed : disk0[p].bulk > 0 => disk[p] = disk0[p]

\* C3: at every step, the path of a large file holds either the complete old
\* content or the complete cleaned content.
C3_OldOrCleanedAtEveryStep ==
  \A p \in Paths :
    disk0[p].bulk > 0 =>
      disk[p] = disk0[p] \/ disk[p] = CleanedStreamOf(disk0[p])

\* the single-scalar matches of the selected matcher, among a file's units
IsMatch(u) ==
  IF HAS_EMOJI_LIB THEN <<u>> \in EMOJI_DATA ELSE MatchesPattern(u)

\* C4: for a large file the streaming scan reports every emoji of every line,
\* the last line included, and after a successful execute the file holds its
\* original bytes in their order, less exactly the matched emoji: line
\* terminators and undecodable bytes are kept.
C4_StreamingKeepsEveryOtherByte ==
  LET p == 1
      emojis == SelectSeq(disk0[p].data, IsMatch)
  IN  /\ (returned[p] # "none" /\ emojis # <<>>) =>
            \E j \in 1..Len(results) :
              results[j].path = p /\ results[j].emojis_found = emojis
      /\ (pc = "done" /\ p \in ResultPaths /\ p \notin failed) =>
            disk[p] = [bulk |-> disk0[p].bulk,
                       data |-> SelectSeq(disk0[p].data, LAMBDA u : ~IsMatch(u))]

\* C5: a file the filter rejects is never in ScanResult.files and its content
\* never changes; a file whose content changed, and the file the execute pass
\* is working on, are in the preview's ScanResult.files.
C5_FilteredFilesUntouched ==
  /\ \A p \in Paths :
       ~Kept(p) => p \notin ResultPaths /\ disk[p] = disk0[p] /\ p \notin failed
  /\ \A p \in Paths : disk[p] # disk0[p] => p \in ResultPaths
  /\ (pc = "execute" /\ i <= Len(ExecutePaths)) => cur \in ResultPaths

\* the run has ended with a filtered-out file that holds emoji left as it was,
\* while another file was cleaned
C5_Witness ==
  /\ pc = "done"
  /\ \E p \in Paths :
       /\ ~Kept(p)
       /\ find_emojis(HAS_EMOJI_LIB, DecodeIgnore(disk0[p].data)) # <<>>
  /\ \E q \in Paths : disk[q] # disk0[q]

\* the filter as specified: case-insensitive on both sides, a token without a
\* leading dot read as if it had one
TokenSelects(tok, name) == Lower(NormalizeToken(tok)) = Lower(Suffix(name))

\* C6: a file is processed iff (include absent or its extension is in include)
\* and (exclude absent or its extension is not in exclude), compared without
\* regard to case and to a missing leading dot of the token.
C6_FilterIsCaseInsensitive ==
  pc # "walk" =>
    \A p \in Paths :
      p \in Range(files_to_process) <=>
        /\ (args.ext = <<>>
              \/ \E t \in Range(args.ext) : TokenSelects(t, FileName(p)))
        /\ (args.exclude = <<>>
              \/ ~\E t \in Range(args.exclude) : TokenSelects(t, FileName(p)))

\* reading the file fails: permission denied or I/O error, or bytes that are
\* not UTF-8
ReadFails(p) == mode[p] # "ok" \/ DecodeFails(disk0[p].data)

\* C7: a file that passes the filter and whose read fails is skipped as
\* unreadable, whichever strategy reads it: not in ScanResult.files, not
\* counted as scanned with zero emoji, its suffix in skipped_extensions.
C7_UnreadableIsSkipped ==
  \A p \in Paths :
    (returned[p] # "none" /\ ReadFails(p)) =>
      /\ returned[p] = "skipped"
      /\ p \notin ResultPaths
      /\ (Suffix(FileName(p)) # <<>> =>
            Lower(Suffix(FileName(p))) \in skipped_extensions)

\* C8: no failure on one file escapes its handling: the run never ends on an
\* uncaught exception, it exits with code 0, and when the execute pass has run
\* every file of the preview's result was handled.
C8_PerFileFailuresAreContained ==
  /\ pc # "crashed"
  /\ exit_code \in {-1, 0}
  /\ (pc = "done" /\ Executing) => i = Len(ExecutePaths) + 1

\* the answers that are "yes" or "y" once surrounding whitespace and case are
\* ignored
Affirmative ==
  { <<"y", "e", "s">>, <<"y">>, <<"Y">>, <<" ", "Y", "e", "S", " ">> }

Authorised ==
  args.yes \/ (confirm.kind = "line" /\ confirm.text \in Affirmative)

\* C9: a mutation, a temporary file or the execute pass exists only after the
\* preview has completed with at least one file, outside dry-run, and with --yes
\* or an affirmative answer; the prompt comes only after such a preview; any
\* other answer, an interrupt or end of input ends the run with exit code 0 and
\* nothing mutated.
C9_PreviewThenConfirmThenExecute ==
  /\ (disk # disk0 \/ tmp # <<>> \/ Executing) =>
        /\ pc \in {"execute", "done", "crashed"}
        /\ k > Len(files_to_process)
        /\ results # <<>>
        /\ ~args.dry_run
        /\ Authorised
  /\ (pc = "prompt" \/ confirm.kind # "none") =>
        k > Len(files_to_process) /\ results # <<>> /\ ~args.yes /\ ~args.dry_run
  /\ (confirm.kind # "none" /\ ~Authorised) =>
        /\ pc = "done" /\ exit_code = 0
        /\ disk = disk0 /\ tmp = <<>> /\ ~Executing

\* the operator answered " YeS " and a file was then mutated
C9_Witness ==
  /\ confirm.kind = "line"
  /\ confirm.text = <<" ", "Y", "e", "S", " ">>
  /\ disk # disk0

\* C10: applying remove_emojis to its own result changes nothing.
C10_RemoveEmojisIdempotent ==
  Len(outputs) = 3 => outputs[3] = outputs[2]

\* C10, for the regex matcher alone
C10_RegexIdempotent ==
  (~HAS_EMOJI_LIB /\ Len(outputs) = 3) => outputs[3] = outputs[2]

=============================================================================
